---- MODULE Spec2Model ----
(***************************************************************************)
(* Model of the Clipforge timeline editor (src-tauri/src/timeline.rs).     *)
(*                                                                         *)
(* Times are f64 seconds in the source.  Here they are integers (ticks);   *)
(* every input is drawn so that the one division the code performs,        *)
(* (trim_end - trim_start) / speed, is exact, hence the integer result is  *)
(* the value the f64 computation yields.                                   *)
(* Option<T> is modelled as a sequence of length 0 (None) or 1 (Some(x)).  *)
(* Uuid::new_v4() is modelled as "an id not used in the current timeline". *)
(***************************************************************************)
EXTENDS Integers, Sequences, FiniteSets, TLC

\* ---------------------------------------------------------------- bounds
MaxTracks == 2
MaxClips == 2
\* behaviours are sequences of at most MaxOps calls on a new service
MaxOps == 4

TrackIdPool == 1..MaxTracks
ClipIdPool == 1..(MaxClips + 1)
\* arguments the callers pass: positions of new clips, new_position,
\* split_time, trim_start, trim_end
AddPositions == {0, 2}
MoveArgs == {0 - 1, 2}
SplitArgs == 0..3
TrimStartArgs == {0 - 1, 1}
TrimEndArgs == {1, 3}

None == <<>>
Some(x) == <<x>>
IsSome(o) == Len(o) = 1
Unwrap(o) == o[1]

\* ------------------------------------------------------------ data model
TrackType == {"Video", "Audio", "Overlay"}

\* The non-positional fields a caller fills in when it builds a Clip.
ClipPayloads ==
    { [media_file_id |-> "m1", name |-> Some("a.mp4"), effects |-> <<>>,
       volume |-> 1, speed |-> 1],
      [media_file_id |-> "m2", name |-> None,
       effects |-> <<[effect_type |-> "Blur", enabled |-> TRUE]>>,
       volume |-> 2, speed |-> 2] }

Clip(id, p, pos, ts, te) ==
    [id |-> id, media_file_id |-> p.media_file_id, name |-> p.name,
     track_position |-> pos, duration |-> (te - ts) \div p.speed,
     trim_start |-> ts, trim_end |-> te,
     effects |-> p.effects, volume |-> p.volume, speed |-> p.speed]

\* Clips handed to add_clip: caller-chosen id, well-formed per the data model.
NewClips ==
    { Clip(p.speed, p, pos, 0, 2 * p.speed) : p \in ClipPayloads, pos \in AddPositions }

Track(id, ty, clips, muted, locked) ==
    [id |-> id, track_type |-> ty, clips |-> clips, muted |-> muted,
     locked |-> locked]

Timeline(tracks, duration) ==
    [tracks |-> tracks, duration |-> duration,
     subtitle_track |-> None, subtitle_enabled |-> FALSE]

\* current_timeline: the service's Option<Timeline>
\* last:    the most recent call: its name, its result, the ids it returned,
\*          and the arguments of add_clip, move_clip and split_clip
\* ops:     number of calls made so far
\* history: what the calls since the last create_timeline have been
\*            3  only add_clip / move_clip / split_clip / trim_clip, all Ok
\*            2  editor calls only, all of them Ok
\*            1  editor calls only, some returned an error
\*            0  no create_timeline yet, or a project was loaded since
VARIABLES current_timeline, last, ops, history

\* The export side (export.rs, export_commands.rs):
\* cancel_flag:  ExportService.cancel_flag
\* service_lock: who holds the Mutex around the ExportService
\* export_call:  the export_timeline command in flight, and the result of
\*               the last one that returned
\* child:        the external encoding process and its two pipes
\* stderr_task:  the task execute_ffmpeg spawns to read the child's stderr
\* cancels:      cancel_export commands invoked and waiting for the Mutex
\* exports:      number of export_timeline commands invoked so far
VARIABLES cancel_flag, service_lock, export_call, child, stderr_task, cancels, exports

\* compile_in:   the arguments of build_ffmpeg_command
\* compiled:     the results of its runs on these arguments, oldest first
VARIABLES compile_in, compiled

\* parser:       the ProgressParser (its total_duration), once constructed
\* parsed:       the last line given to parse_line and what it returned
VARIABLES parser, parsed

editorVars == <<current_timeline, last, ops, history>>
exportVars == <<cancel_flag, service_lock, export_call, child, stderr_task, cancels, exports>>
compileVars == <<compile_in, compiled>>
progressVars == <<parser, parsed>>

vars == <<editorVars, exportVars, compileVars, progressVars>>

\* ---------------------------------------------------------------- helpers
Max(S) == CHOOSE x \in S : \A y \in S : y <= x
Min(S) == CHOOSE x \in S : \A y \in S : x <= y

RemoveAt(s, i) == SubSeq(s, 1, i - 1) \o SubSeq(s, i + 1, Len(s))
InsertAt(s, i, e) == SubSeq(s, 1, i - 1) \o <<e>> \o SubSeq(s, i, Len(s))

\* iter().position(|x| x.id == id): first index, 0 when absent
PositionById(s, id) ==
    IF \E i \in 1..Len(s) : s[i].id = id
    THEN Min({i \in 1..Len(s) : s[i].id = id})
    ELSE 0

\* first track (in track order) holding a clip with this id, 0 when absent
TrackOfClip(tracks, clip_id) ==
    IF \E i \in 1..Len(tracks) : PositionById(tracks[i].clips, clip_id) > 0
    THEN Min({i \in 1..Len(tracks) : PositionById(tracks[i].clips, clip_id) > 0})
    ELSE 0

ClipSlots(tracks) ==
    UNION { { <<i, j>> : j \in 1..Len(tracks[i].clips) } : i \in 1..Len(tracks) }

ClipAt(tracks, s) == tracks[s[1]].clips[s[2]]

NumClips(tracks) == Cardinality(ClipSlots(tracks))

ClipIdsOf(tracks) == { ClipAt(tracks, s).id : s \in ClipSlots(tracks) }

ClipEnd(c) == c.track_position + c.duration

\* Uuid::new_v4(): an id that no object of the timeline carries (0: pool exhausted)
NewV4(pool, used) == IF pool \ used = {} THEN 0 ELSE Min(pool \ used)

\* --------------------------------------------------- timeline.rs functions
\* the overlap test of check_overlap
overlaps(new_start, new_end, existing_start, existing_end) ==
    new_start < existing_end /\ new_end > existing_start

check_overlap(track, new_clip) ==
    LET new_start == new_clip.track_position
        new_end == new_start + new_clip.duration
        hits == { i \in 1..Len(track.clips) :
                    /\ track.clips[i].id # new_clip.id
                    /\ overlaps(new_start, new_end, track.clips[i].track_position,
                                ClipEnd(track.clips[i])) }
    IN  IF hits = {} THEN None ELSE Some(track.clips[Min(hits)].id)

calculate_duration(tracks) ==
    Max({0} \cup { ClipEnd(ClipAt(tracks, s)) : s \in ClipSlots(tracks) })

Result(tl, res) == [timeline |-> tl, res |-> res, ret |-> None]

\* (mutant) create_timeline that keeps the tracks of the timeline it finds
create_timeline_keeping ==
    IF current_timeline = None
    THEN Result(Timeline(<<Track(1, "Video", <<>>, FALSE, FALSE),
                           Track(2, "Audio", <<>>, FALSE, FALSE)>>, 0), "Ok")
    ELSE Result([Unwrap(current_timeline) EXCEPT !.duration = 0], "Ok")

create_timeline ==
    Result(Timeline(<<Track(1, "Video", <<>>, FALSE, FALSE),
                      Track(2, "Audio", <<>>, FALSE, FALSE)>>, 0), "Ok")

add_track(tl, track_type) ==
    LET id == NewV4(TrackIdPool, { tl.tracks[i].id : i \in 1..Len(tl.tracks) })
    IN  [timeline |-> [tl EXCEPT !.tracks = Append(@, Track(id, track_type, <<>>, FALSE, FALSE))],
         res |-> "Ok", ret |-> Some(id)]

remove_track(tl, track_id) ==
    LET index == PositionById(tl.tracks, track_id)
    IN  IF index = 0 THEN Result(tl, "TrackNotFound")
        ELSE Result([tl EXCEPT !.tracks = RemoveAt(@, index)], "Ok")

add_clip(tl, track_id, clip) ==
    LET ti == PositionById(tl.tracks, track_id)
        clip_end == clip.track_position + clip.duration
    IN  IF ti = 0 THEN Result(tl, "TrackNotFound")
        ELSE IF tl.tracks[ti].locked THEN Result(tl, "InvalidOperation")
        ELSE IF IsSome(check_overlap(tl.tracks[ti], clip)) THEN Result(tl, "OverlapError")
        ELSE Result([tl EXCEPT !.tracks[ti].clips = Append(@, clip),
                               !.duration = IF clip_end > @ THEN clip_end ELSE @],
                    "Ok")

remove_clip(tl, clip_id) ==
    LET ti == TrackOfClip(tl.tracks, clip_id)
        index == PositionById(tl.tracks[ti].clips, clip_id)
        tracks1 == [tl.tracks EXCEPT ![ti].clips = RemoveAt(@, index)]
    IN  IF ti = 0 THEN Result(tl, "ClipNotFound")
        ELSE Result([tl EXCEPT !.tracks = tracks1,
                               !.duration = calculate_duration(tracks1)], "Ok")

\* (mutant) a failed move puts the clip back
move_failed_restoring(tl, tracks1, err) == Result(tl, err)

\* an early return of move_clip after the clip was removed: tracks1 is kept
move_failed(tl, tracks1, err) == Result([tl EXCEPT !.tracks = tracks1], err)

move_clip(tl, clip_id, new_track_id, new_position) ==
    LET si == TrackOfClip(tl.tracks, clip_id)
        index == PositionById(tl.tracks[si].clips, clip_id)
        \* the clip is taken out of its track before anything is validated
        tracks1 == [tl.tracks EXCEPT ![si].clips = RemoveAt(@, index)]
        clip == [tl.tracks[si].clips[index] EXCEPT !.track_position = new_position]
        di == PositionById(tracks1, new_track_id)
        tracks2 == [tracks1 EXCEPT ![di].clips = Append(@, clip)]
    IN  IF si = 0 THEN Result(tl, "ClipNotFound")
        ELSE IF di = 0 THEN move_failed(tl, tracks1, "TrackNotFound")
        ELSE IF tracks1[di].locked THEN move_failed(tl, tracks1, "InvalidOperation")
        ELSE IF IsSome(check_overlap(tracks1[di], clip))
             THEN move_failed(tl, tracks1, "OverlapError")
        ELSE Result([tl EXCEPT !.tracks = tracks2,
                               !.duration = calculate_duration(tracks2)], "Ok")

trim_clip(tl, clip_id, trim_start, trim_end) ==
    LET ti == TrackOfClip(tl.tracks, clip_id)
        ci == PositionById(tl.tracks[ti].clips, clip_id)
        c0 == tl.tracks[ti].clips[ci]
        start_bad == IsSome(trim_start) /\
                     (Unwrap(trim_start) < 0 \/ Unwrap(trim_start) >= c0.trim_end)
        \* clip.trim_start = start is assigned before trim_end is looked at
        c1 == IF IsSome(trim_start) THEN [c0 EXCEPT !.trim_start = Unwrap(trim_start)]
              ELSE c0
        end_bad == IsSome(trim_end) /\ Unwrap(trim_end) <= c1.trim_start
        c2 == IF IsSome(trim_end) THEN [c1 EXCEPT !.trim_end = Unwrap(trim_end)]
              ELSE c1
        c3 == [c2 EXCEPT !.duration = (c2.trim_end - c2.trim_start) \div c2.speed]
        tracks3 == [tl.tracks EXCEPT ![ti].clips[ci] = c3]
    IN  IF ti = 0 THEN Result(tl, "ClipNotFound")
        ELSE IF start_bad THEN Result(tl, "InvalidOperation")
        ELSE IF end_bad
             THEN Result([tl EXCEPT !.tracks[ti].clips[ci] = c1], "InvalidOperation")
        ELSE Result([tl EXCEPT !.tracks = tracks3,
                               !.duration = calculate_duration(tracks3)], "Ok")

\* (mutant) the end points of the clip are accepted as split times
split_outside_open(split_time, clip_start, clip_end) ==
    split_time < clip_start \/ split_time > clip_end

\* the validation of split_time
split_outside(split_time, clip_start, clip_end) ==
    split_time <= clip_start \/ split_time >= clip_end

\* (mutant) the cut in the source ignores the speed
source_split_unscaled(original_clip, split_offset) ==
    original_clip.trim_start + split_offset

source_split(original_clip, split_offset) ==
    original_clip.trim_start + split_offset * original_clip.speed

split_clip(tl, clip_id, split_time) ==
    LET ti == TrackOfClip(tl.tracks, clip_id)
        index == PositionById(tl.tracks[ti].clips, clip_id)
        original_clip == tl.tracks[ti].clips[index]
        clip_start == original_clip.track_position
        clip_end == clip_start + original_clip.duration
        split_offset == split_time - clip_start
        source_split_time == source_split(original_clip, split_offset)
        first_id == NewV4(ClipIdPool, ClipIdsOf(tl.tracks))
        second_id == NewV4(ClipIdPool, ClipIdsOf(tl.tracks) \cup {first_id})
        first_clip == [original_clip EXCEPT !.id = first_id,
                                            !.duration = split_offset,
                                            !.trim_end = source_split_time]
        second_clip == [original_clip EXCEPT !.id = second_id,
                                             !.track_position = split_time,
                                             !.duration = original_clip.duration - split_offset,
                                             !.trim_start = source_split_time]
        clips1 == InsertAt(InsertAt(RemoveAt(tl.tracks[ti].clips, index), index, second_clip),
                           index, first_clip)
    IN  IF ti = 0 THEN Result(tl, "ClipNotFound")
        ELSE IF split_outside(split_time, clip_start, clip_end)
             THEN Result(tl, "InvalidOperation")
        ELSE [timeline |-> [tl EXCEPT !.tracks[ti].clips = clips1],
              res |-> "Ok", ret |-> Some(<<first_id, second_id>>)]

\* Project files load_project can read: a saved default timeline whose track
\* flags were set by the editor front end, with or without one clip.
ProjectFiles ==
    LET saved == <<Clip(1, CHOOSE p \in ClipPayloads : p.speed = 1, 0, 0, 2)>>
    IN  { Timeline(<<Track(1, "Video", saved, FALSE, l1),
                     Track(2, "Audio", <<>>, FALSE, ~l1)>>,
                   calculate_duration(<<Track(1, "Video", saved, FALSE, l1)>>)) :
            l1 \in BOOLEAN }

\* ------------------------------------------------------------------ state
Call(op, res) ==
    [op |-> op, res |-> res, ret |-> None, clip_id |-> 0, track_id |-> 0, time |-> 0]

\* no export_timeline command in flight, none has returned yet
IdleCall ==
    [pc |-> "idle", input |-> None, result |-> None, flag_at_start |-> FALSE,
     lines_read |-> 0, status |-> None, cancel_requested |-> FALSE,
     cancelled_in_run |-> FALSE, progress_emitted |-> 0, complete_emitted |-> FALSE]

\* no external process
NoChild ==
    [state |-> "none", stdout |-> 0, stdout_written |-> 0, stderr |-> 0,
     stderr_written |-> 0, status |-> 0, output |-> "missing"]

NoTask == [state |-> "none", error_output |-> 0]

\* ExportService::new and the state main.rs wraps around it
ExportInit ==
    /\ cancel_flag = FALSE
    /\ service_lock = "free"
    /\ export_call = IdleCall
    /\ child = NoChild
    /\ stderr_task = NoTask
    /\ cancels = 0
    /\ exports = 0

CompileInit ==
    /\ compile_in = None
    /\ compiled = <<>>

ProgressInit ==
    /\ parser = None
    /\ parsed = None

Init ==
    /\ current_timeline = None
    /\ last = Call("new", "Ok")
    /\ ops = 0
    /\ history = 0
    /\ ExportInit
    /\ CompileInit
    /\ ProgressInit

EditOps == {"add_clip", "move_clip", "split_clip", "trim_clip"}

HistoryAfter(h, call) ==
    IF call.op = "create_timeline" THEN 3
    ELSE IF call.op = "load_project" THEN 0
    ELSE IF h = 0 THEN 0
    ELSE IF call.res # "Ok" THEN 1
    ELSE IF call.op \in EditOps THEN h
    ELSE IF h = 3 THEN 2 ELSE h

\* bookkeeping of a call: one more call made, history updated from its result
Tally ==
    /\ ops' = ops + 1
    /\ history' = HistoryAfter(history, last')
    /\ UNCHANGED <<exportVars, compileVars, progressVars>>

\* get_timeline_mut()? on a service that holds no timeline
NoTimeline(call) ==
    /\ current_timeline = None
    /\ current_timeline' = None
    /\ last' = [call EXCEPT !.res = "TimelineNotFound"]
    /\ Tally

Apply(r, call) ==
    /\ current_timeline # None
    /\ current_timeline' = Some(r.timeline)
    /\ last' = [call EXCEPT !.res = r.res, !.ret = r.ret]
    /\ Tally

Present == current_timeline # None

Tl == Unwrap(current_timeline)

CreateTimeline ==
    /\ ops < MaxOps
    /\ current_timeline' = Some(create_timeline.timeline)
    /\ last' = Call("create_timeline", "Ok")
    /\ Tally

AddTrack(track_type) ==
    /\ ops < MaxOps
    /\ LET call == Call("add_track", "Ok")
       IN  \/ NoTimeline(call)
           \/ /\ current_timeline # None
              /\ Len(Tl.tracks) < MaxTracks
              /\ Apply(add_track(Tl, track_type), call)

RemoveTrack(track_id) ==
    /\ ops < MaxOps
    /\ LET call == Call("remove_track", "Ok")
       IN  \/ NoTimeline(call)
           \/ /\ current_timeline # None
              /\ Apply(remove_track(Tl, track_id), call)

AddClip(track_id, clip) ==
    /\ ops < MaxOps
    /\ LET call == [Call("add_clip", "Ok") EXCEPT !.clip_id = clip.id,
                                                  !.track_id = track_id,
                                                  !.time = clip.track_position]
       IN  \/ NoTimeline(call)
           \/ /\ current_timeline # None
              /\ LET r == add_clip(Tl, track_id, clip)
                 IN  /\ r.res = "Ok" => NumClips(Tl.tracks) < MaxClips
                     /\ Apply(r, call)

RemoveClip(clip_id) ==
    /\ ops < MaxOps
    /\ LET call == Call("remove_clip", "Ok")
       IN  \/ NoTimeline(call)
           \/ /\ current_timeline # None
              /\ Apply(remove_clip(Tl, clip_id), call)

MoveClip(clip_id, new_track_id, new_position) ==
    /\ ops < MaxOps
    /\ LET call == [Call("move_clip", "Ok") EXCEPT !.clip_id = clip_id,
                                                   !.track_id = new_track_id,
                                                   !.time = new_position]
       IN  \/ NoTimeline(call)
           \/ /\ current_timeline # None
              /\ Apply(move_clip(Tl, clip_id, new_track_id, new_position), call)

\* the division in trim_clip is exact on the integer grid
TrimExact(tl, clip_id, trim_start, trim_end) ==
    LET ti == TrackOfClip(tl.tracks, clip_id)
        c == tl.tracks[ti].clips[PositionById(tl.tracks[ti].clips, clip_id)]
        s == IF IsSome(trim_start) THEN Unwrap(trim_start) ELSE c.trim_start
        e == IF IsSome(trim_end) THEN Unwrap(trim_end) ELSE c.trim_end
    IN  IF ti = 0 THEN TRUE ELSE (e - s) % c.speed = 0

TrimClip(clip_id, trim_start, trim_end) ==
    /\ ops < MaxOps
    /\ LET call == Call("trim_clip", "Ok")
       IN  \/ NoTimeline(call)
           \/ /\ current_timeline # None
              /\ TrimExact(Tl, clip_id, trim_start, trim_end)
              /\ Apply(trim_clip(Tl, clip_id, trim_start, trim_end), call)

SplitClip(clip_id, split_time) ==
    /\ ops < MaxOps
    /\ LET call == [Call("split_clip", "Ok") EXCEPT !.clip_id = clip_id, !.time = split_time]
       IN  \/ NoTimeline(call)
           \/ /\ current_timeline # None
              /\ LET r == split_clip(Tl, clip_id, split_time)
                 IN  /\ r.res = "Ok" => NumClips(Tl.tracks) < MaxClips
                     /\ Apply(r, call)

LoadProject ==
    /\ ops < MaxOps
    /\ \/ \E tl \in ProjectFiles :
             /\ current_timeline' = Some(tl)
             /\ last' = Call("load_project", "Ok")
       \/ /\ current_timeline' = current_timeline
          /\ last' = Call("load_project", "IoError")
    /\ Tally

Option(S) == {None} \cup { Some(x) : x \in S }

\* Ids a caller passes: those of the objects of the timeline, and one id that
\* no object carries (all such ids behave alike: the lookup fails).
TrackIdArgs ==
    LET used == IF Present THEN { Tl.tracks[i].id : i \in 1..Len(Tl.tracks) } ELSE {}
    IN  used \cup ({NewV4(TrackIdPool \cup {MaxTracks + 1}, used)} \ {0})

ClipIdArgs ==
    LET used == IF Present THEN ClipIdsOf(Tl.tracks) ELSE {}
    IN  used \cup ({NewV4(ClipIdPool, used)} \ {0})

Next ==
    \/ CreateTimeline
    \/ \E ty \in TrackType : AddTrack(ty)
    \/ \E t \in TrackIdArgs : RemoveTrack(t)
    \/ \E t \in TrackIdArgs, c \in NewClips : AddClip(t, c)
    \/ \E c \in ClipIdArgs : RemoveClip(c)
    \/ \E c \in ClipIdArgs, t \in TrackIdArgs, p \in MoveArgs : MoveClip(c, t, p)
    \/ \E c \in ClipIdArgs, s \in Option(TrimStartArgs), e \in Option(TrimEndArgs) :
          TrimClip(c, s, e)
    \/ \E c \in ClipIdArgs, t \in SplitArgs : SplitClip(c, t)
    \/ LoadProject


Spec == Init /\ [][Next]_vars

\* ============================================================== properties
Intersect(a, b) ==
    /\ a.track_position < b.track_position + b.duration
    /\ b.track_position < a.track_position + a.duration

NoOverlap(tracks) ==
    \A i \in 1..Len(tracks) :
        \A j, k \in 1..Len(tracks[i].clips) :
            j # k => ~Intersect(tracks[i].clips[j], tracks[i].clips[k])

\* max(track_position + duration) over all clips, 0 when there is no clip
MaxClipEnd(tracks) ==
    IF ClipSlots(tracks) = {} THEN 0
    ELSE Max({ ClipEnd(ClipAt(tracks, s)) : s \in ClipSlots(tracks) })

ClipEquations(c) ==
    /\ c.duration * c.speed = c.trim_end - c.trim_start
    /\ c.trim_start < c.trim_end

\* C1: after every sequence of add_clip / move_clip / split_clip / trim_clip
\* calls that all returned Ok on a freshly created timeline, no two distinct
\* clips of one track have intersecting intervals [position, position+duration).
C1_NoOverlapAfterAcceptedEdits ==
    (Present /\ history = 3) => NoOverlap(Tl.tracks)

\* C2: after an editor operation that changed the tracks or clips (any Ok
\* structural call, or a move_clip that found its clip, Ok or not),
\* timeline.duration is the maximum clip end, or 0 without clips.
C2_DurationIsMaxClipEnd ==
    (/\ Present
     /\ history > 0
     /\ last.op \in {"add_track", "remove_track", "add_clip", "remove_clip",
                     "move_clip", "trim_clip", "split_clip"}
     /\ (last.res = "Ok" \/ (last.op = "move_clip" /\ last.res # "ClipNotFound")))
    => Tl.duration = MaxClipEnd(Tl.tracks)

\* C3: every clip given to add_clip satisfies duration = (trim_end - trim_start)
\* / speed and trim_start < trim_end; after any sequence of editor calls, failed
\* ones included, every clip of the timeline still satisfies both.
C3_ClipEquationsKept ==
    (Present /\ history > 0) =>
        \A s \in ClipSlots(Tl.tracks) : ClipEquations(ClipAt(Tl.tracks, s))

\* C4: every clip given to add_clip has track_position >= 0; after any sequence
\* of editor calls that all returned Ok every clip has track_position >= 0.
C4_PositionsNonNegative ==
    (Present /\ history >= 2) =>
        \A s \in ClipSlots(Tl.tracks) : ClipAt(Tl.tracks, s).track_position >= 0


\* ------------------------------------------------------------- split_clip
Tl2 == Unwrap(current_timeline')

\* the clip a call by id acts on: the first one found, tracks then clips in order
FirstClip(tracks, clip_id) ==
    LET ti == TrackOfClip(tracks, clip_id)
    IN  tracks[ti].clips[PositionById(tracks[ti].clips, clip_id)]

SameButClips(t1, t2) == t2 = [t1 EXCEPT !.clips = t2.clips]

SplitPost(tl, tl2, ret, clip_id, t) ==
    LET ti == TrackOfClip(tl.tracks, clip_id)
        old == tl.tracks[ti].clips
        new == tl2.tracks[ti].clips
        i == PositionById(old, clip_id)
        o == old[i]
        P == o.track_position
        D == o.duration
        S == o.trim_start
        E == o.trim_end
        v == o.speed
        a == new[i]
        b == new[i + 1]
        copied(x) == /\ x.media_file_id = o.media_file_id
                     /\ x.effects = o.effects
                     /\ x.volume = o.volume
                     /\ x.speed = v
    IN  /\ P < t /\ t < P + D
        \* the one clip is replaced by two, everything else stays
        /\ Len(tl2.tracks) = Len(tl.tracks)
        /\ \A j \in 1..Len(tl.tracks) : j # ti => tl2.tracks[j] = tl.tracks[j]
        /\ SameButClips(tl.tracks[ti], tl2.tracks[ti])
        /\ Len(new) = Len(old) + 1
        /\ \A k \in 1..Len(old) : (k < i => new[k] = old[k]) /\ (k > i => new[k + 1] = old[k])
        /\ ret = Some(<<a.id, b.id>>)
        \* first half
        /\ a.track_position = P /\ a.duration = t - P
        /\ a.trim_start = S /\ a.trim_end = S + (t - P) * v
        \* second half
        /\ b.track_position = t /\ b.duration = D - (t - P)
        /\ b.trim_start = S + (t - P) * v /\ b.trim_end = E
        \* durations sum to D, trim ranges meet at the cut
        /\ a.duration + b.duration = D
        /\ a.trim_end = b.trim_start
        /\ ClipEquations(o) => (S < a.trim_end /\ a.trim_end < E)
        /\ copied(a) /\ copied(b)
        /\ tl2.duration = tl.duration

C6_SplitOutsideRejected ==
    [][(/\ Present
        /\ last'.op = "split_clip"
        /\ TrackOfClip(Tl.tracks, last'.clip_id) # 0
        /\ LET o == FirstClip(Tl.tracks, last'.clip_id)
           IN  \/ last'.time <= o.track_position
               \/ last'.time >= o.track_position + o.duration)
        => (last'.res = "InvalidOperation" /\ current_timeline' = current_timeline)]_vars

\* split_clip was refused exactly at the end point of the clip, which is kept
C6_Witness ==
    /\ Present
    /\ last.op = "split_clip" /\ last.res = "InvalidOperation"
    /\ TrackOfClip(Tl.tracks, last.clip_id) # 0
    /\ last.time = ClipEnd(FirstClip(Tl.tracks, last.clip_id))

\* -------------------------------------------------------------- trim_clip
\* the window a trim_clip call asks for: given values replace the current ones
Requested(o, given) == IF IsSome(given) THEN Unwrap(given) ELSE o

\* C7: a trim_clip call on an existing clip whose requested window has
\* trim_start >= trim_end or trim_start < 0 returns InvalidOperation, and no
\* trim_clip call returns Ok leaving the clip with such a window.
C7_TrimRejectsBadWindow ==
    [][(Present /\ last'.op = "trim_clip") =>
       \A c \in ClipIdsOf(Tl.tracks), s \in Option(TrimStartArgs), e \in Option(TrimEndArgs) :
        TrimClip(c, s, e)
        => LET o == FirstClip(Tl.tracks, c)
               ns == Requested(o.trim_start, s)
               ne == Requested(o.trim_end, e)
               ti == TrackOfClip(Tl.tracks, c)
               n == Tl2.tracks[ti].clips[PositionById(Tl.tracks[ti].clips, c)]
           IN  /\ (ns >= ne \/ ns < 0) => last'.res = "InvalidOperation"
               /\ last'.res = "Ok" => (0 <= n.trim_start /\ n.trim_start < n.trim_end)]_vars

\* C8: a trim_clip call that returns an error leaves the timeline (the clip's
\* trim_start, trim_end and duration, and timeline.duration) as it was.
C8_FailedTrimChangesNothing ==
    [][(Present /\ last'.op = "trim_clip" /\ last'.res # "Ok")
        => current_timeline' = current_timeline]_vars

\* ---------------------------------------------------------------- add_clip
TrackById(tracks, track_id) == tracks[PositionById(tracks, track_id)]

\* the clip an add_clip call was given (new clips differ in id or position)
AddedClip(call) ==
    CHOOSE c \in NewClips : c.id = call.clip_id /\ c.track_position = call.time

\* C9 as stated: add_clip of a clip whose interval intersects that of a clip of
\* the target track fails with OverlapError, and a failing add_clip leaves the
\* timeline unchanged.
C9_Original ==
    [][(Present /\ last'.op = "add_clip") =>
       LET t == last'.track_id
           c == AddedClip(last')
       IN  /\ (/\ PositionById(Tl.tracks, t) # 0
               /\ \E k \in 1..Len(TrackById(Tl.tracks, t).clips) :
                     Intersect(c, TrackById(Tl.tracks, t).clips[k]))
              => last'.res = "OverlapError"
           /\ last'.res # "Ok" => current_timeline' = current_timeline]_vars

\* C9 restricted to what add_clip does: add_clip to an unlocked track of a clip whose interval intersects
\* that of a clip of the track with a different id fails with OverlapError; a
\* locked target fails with InvalidOperation, a missing one with TrackNotFound;
\* every failing add_clip leaves the tracks and timeline.duration unchanged.
C9_AddClipErrors ==
    [][(Present /\ last'.op = "add_clip") =>
       LET t == last'.track_id
           c == AddedClip(last')
       IN  /\ (/\ PositionById(Tl.tracks, t) # 0
               /\ ~TrackById(Tl.tracks, t).locked
               /\ \E k \in 1..Len(TrackById(Tl.tracks, t).clips) :
                     /\ TrackById(Tl.tracks, t).clips[k].id # c.id
                     /\ Intersect(c, TrackById(Tl.tracks, t).clips[k]))
              => last'.res = "OverlapError"
           /\ PositionById(Tl.tracks, t) = 0 => last'.res = "TrackNotFound"
           /\ (PositionById(Tl.tracks, t) # 0 /\ TrackById(Tl.tracks, t).locked)
              => last'.res = "InvalidOperation"
           /\ last'.res # "Ok" => (Tl2.tracks = Tl.tracks /\ Tl2.duration = Tl.duration)]_vars

\* an add_clip was refused for overlap; the track still holds what it held
C9_Witness ==
    /\ Present
    /\ last.op = "add_clip" /\ last.res = "OverlapError"
    /\ NumClips(Tl.tracks) = 1
    /\ Tl.duration = MaxClipEnd(Tl.tracks)

\* --------------------------------------------------------------- move_clip
\* the tracks once the clip move_clip acts on has been taken out
WithoutFirstClip(tracks, clip_id) ==
    LET ti == TrackOfClip(tracks, clip_id)
        i == PositionById(tracks[ti].clips, clip_id)
    IN  [tracks EXCEPT ![ti].clips =
            [k \in 1..(Len(@) - 1) |-> IF k < i THEN @[k] ELSE @[k + 1]]]

\* why the destination refuses the moved clip ("" when it does not)
DestinationError(tracks, clip_id, new_track_id, new_position) ==
    LET o == FirstClip(tracks, clip_id)
        rest == WithoutFirstClip(tracks, clip_id)
        moved == [o EXCEPT !.track_position = new_position]
    IN  IF PositionById(rest, new_track_id) = 0 THEN "TrackNotFound"
        ELSE IF TrackById(rest, new_track_id).locked THEN "InvalidOperation"
        ELSE IF \E k \in 1..Len(TrackById(rest, new_track_id).clips) :
                    /\ TrackById(rest, new_track_id).clips[k].id # clip_id
                    /\ Intersect(moved, TrackById(rest, new_track_id).clips[k])
             THEN "OverlapError"
        ELSE ""

UniqueIds(tracks) == Cardinality(ClipIdsOf(tracks)) = NumClips(tracks)

\* C10: when move_clip finds the clip and the destination refuses it (missing,
\* locked, overlap), the call returns that error and the clip is gone: the
\* tracks are the old ones without it (no clip carries its id when ids were
\* unique).  When no clip has the id, the call returns ClipNotFound and the
\* timeline is unchanged.
C10_FailedMoveLosesClip ==
    [][(Present /\ last'.op = "move_clip") =>
       LET c == last'.clip_id
       IN  IF TrackOfClip(Tl.tracks, c) = 0
           THEN last'.res = "ClipNotFound" /\ current_timeline' = current_timeline
           ELSE LET err == DestinationError(Tl.tracks, c, last'.track_id, last'.time)
                IN  /\ err # "" =>
                        /\ last'.res = err
                        /\ Tl2.tracks = WithoutFirstClip(Tl.tracks, c)
                        /\ NumClips(Tl2.tracks) = NumClips(Tl.tracks) - 1
                        /\ UniqueIds(Tl.tracks) => c \notin ClipIdsOf(Tl2.tracks)
                    /\ err = "" => last'.res = "Ok"]_vars

\* a move was refused by its destination and the only clip is gone, while the
\* timeline still reports the duration it had with the clip
C10_Witness ==
    /\ Present
    /\ last.op = "move_clip"
    /\ last.res \in {"TrackNotFound", "InvalidOperation", "OverlapError"}
    /\ NumClips(Tl.tracks) = 0
    /\ Tl.duration > 0

\* the slots of the clips that carry this id
SlotsOfId(tracks, clip_id) == { sl \in ClipSlots(tracks) : ClipAt(tracks, sl).id = clip_id }

\* C22 as stated: a move_clip that finds its clip and an unlocked destination
\* succeeds exactly when the moved interval intersects no other clip of the
\* destination track (its own previous interval does not count); after a
\* successful move the clip appears exactly once in the timeline, last in the
\* destination track, with track_position = new_position and all other fields
\* unchanged.
C22_MoveAgainstOthers ==
    [][(Present /\ last'.op = "move_clip" /\ TrackOfClip(Tl.tracks, last'.clip_id) # 0) =>
       LET c == last'.clip_id
           o == FirstClip(Tl.tracks, c)
           moved == [o EXCEPT !.track_position = last'.time]
           rest == WithoutFirstClip(Tl.tracks, c)
           di == PositionById(rest, last'.track_id)
           free == \A k \in 1..Len(rest[di].clips) : ~Intersect(moved, rest[di].clips[k])
       IN  (di # 0 /\ ~rest[di].locked) =>
              /\ last'.res = "Ok" <=> free
              /\ last'.res = "Ok" =>
                    /\ Cardinality(SlotsOfId(Tl2.tracks, c)) = 1
                    /\ SlotsOfId(Tl2.tracks, c) = {<<di, Len(Tl2.tracks[di].clips)>>}
                    /\ ClipAt(Tl2.tracks, <<di, Len(Tl2.tracks[di].clips)>>) = moved]_vars

\* C28: no two clips of the timeline carry the same id.
C28_ClipIdsUnique == Present => UniqueIds(Tl.tracks)

ClipLevelOps == {"add_clip", "move_clip", "trim_clip", "split_clip", "remove_clip"}

\* C29: a call of add_clip, move_clip, trim_clip, split_clip or remove_clip,
\* whatever it returns, leaves every locked track of the timeline as it was.
C29_LockedTrackUnchanged ==
    [][(Present /\ last'.op \in ClipLevelOps) =>
          \A i \in 1..Len(Tl.tracks) :
              Tl.tracks[i].locked => Tl2.tracks[i] = Tl.tracks[i]]_vars

\* ======================================================= get_clips_at_time
\* time >= clip_start && time < clip_end, end point taken in
at_time_closed(time, clip_start, clip_end) ==
    time >= clip_start /\ time <= clip_end

\* time >= clip_start && time < clip_end
at_time(time, clip_start, clip_end) ==
    time >= clip_start /\ time < clip_end

\* the clips one track contributes, in the order of its clip list
clips_of_track_at(track, time) ==
    LET hit(clip) == at_time(time, clip.track_position,
                             clip.track_position + clip.duration)
    IN  IF track.muted THEN <<>> ELSE SelectSeq(track.clips, hit)

RECURSIVE collect_clips_at(_, _, _)
collect_clips_at(tracks, n, time) ==
    IF n = 0 THEN <<>>
    ELSE collect_clips_at(tracks, n - 1, time) \o clips_of_track_at(tracks[n], time)

get_clips_at_time(tl, time) ==
    [timeline |-> tl, res |-> "Ok",
     ret |-> Some(collect_clips_at(tl.tracks, Len(tl.tracks), time))]

\* Clip lists of saved projects: empty, one clip, two clips end to end, two
\* clips on top of each other (a file can hold any list).
SavedClipLists ==
    LET p1 == CHOOSE p \in ClipPayloads : p.speed = 1
        p2 == CHOOSE p \in ClipPayloads : p.speed = 2
        A0 == Clip(1, p1, 0, 0, 2)
        B0 == Clip(2, p2, 0, 0, 4)
        B2 == Clip(2, p2, 2, 0, 4)
    IN  { <<>>, <<A0>>, <<B2>>, <<A0, B2>>, <<B0, A0>> }

\* Project files with muted tracks, as the front end saves them.
SavedProjects ==
    { Timeline(<<Track(1, "Video", c1, m1, FALSE), Track(2, "Audio", c2, m2, FALSE)>>,
               calculate_duration(<<Track(1, "Video", c1, m1, FALSE),
                                    Track(2, "Audio", c2, m2, FALSE)>>)) :
        c1 \in SavedClipLists, c2 \in SavedClipLists, m1 \in BOOLEAN, m2 \in BOOLEAN }

PlayheadArgs == 0..4

\* load_project of one of the saved projects
OpenProject ==
    /\ ops < MaxOps
    /\ \E tl \in SavedProjects :
          /\ current_timeline' = Some(tl)
          /\ last' = Call("load_project", "Ok")
    /\ Tally

GetClipsAtTime(time) ==
    /\ ops < MaxOps
    /\ LET call == [Call("get_clips_at_time", "Ok") EXCEPT !.time = time]
       IN  \/ NoTimeline(call)
           \/ /\ current_timeline # None
              /\ Apply(get_clips_at_time(Tl, time), call)

NextPlayhead ==
    \/ CreateTimeline
    \/ OpenProject
    \/ \E t \in PlayheadArgs : GetClipsAtTime(t)

SpecPlayhead == Init /\ [][NextPlayhead]_vars

\* slots of the clips of unmuted tracks whose interval [start, end) holds t
SlotsAt(tracks, t) ==
    { s \in ClipSlots(tracks) :
        /\ ~tracks[s[1]].muted
        /\ ClipAt(tracks, s).track_position <= t
        /\ t < ClipAt(tracks, s).track_position + ClipAt(tracks, s).duration }

\* C11: get_clips_at_time(t) returns exactly the clips of unmuted tracks with
\* track_position <= t < track_position + duration (one entry per such clip,
\* none else: a clip is in at its start, out at its end, never in when its
\* track is muted), and the call leaves the timeline as it was.
C11_ClipsAtTime ==
    [][(Present /\ last'.op = "get_clips_at_time") =>
       LET got == Unwrap(last'.ret)
           want == SlotsAt(Tl.tracks, last'.time)
       IN  /\ last'.res = "Ok"
           /\ Len(got) = Cardinality(want)
           /\ \A s \in want : \E k \in 1..Len(got) : got[k] = ClipAt(Tl.tracks, s)
           /\ \A k \in 1..Len(got) : \E s \in want : got[k] = ClipAt(Tl.tracks, s)
           /\ current_timeline' = current_timeline]_vars

\* the playhead is where one clip ends and the next starts, on an unmuted track,
\* while the other track is muted and holds a clip there: one clip is returned
C11_Witness ==
    /\ Present
    /\ last.op = "get_clips_at_time" /\ last.res = "Ok"
    /\ last.time = 2
    /\ \E i \in 1..Len(Tl.tracks) :
          /\ ~Tl.tracks[i].muted
          /\ Len(Tl.tracks[i].clips) = 2
          /\ ClipEnd(Tl.tracks[i].clips[1]) = 2
          /\ Tl.tracks[i].clips[2].track_position = 2
    /\ \E i \in 1..Len(Tl.tracks) : Tl.tracks[i].muted /\ Len(Tl.tracks[i].clips) > 0
    /\ Len(Unwrap(last.ret)) = 1
    /\ Unwrap(last.ret)[1].track_position = 2

\* ========================================================= create_timeline
DefaultTrack(t, ty) ==
    /\ t.track_type = ty
    /\ t.clips = <<>>
    /\ ~t.muted
    /\ ~t.locked

FreshTimeline(tl) ==
    /\ Len(tl.tracks) = 2
    /\ DefaultTrack(tl.tracks[1], "Video")
    /\ DefaultTrack(tl.tracks[2], "Audio")
    /\ tl.tracks[1].id # tl.tracks[2].id
    /\ tl.duration = 0
    /\ tl.subtitle_track = None
    /\ ~tl.subtitle_enabled

\* C12: create_timeline always returns Ok and, whatever the service held
\* (nothing, or a timeline with any tracks and clips), afterwards the service
\* holds a timeline of exactly two tracks, Video then Audio, both empty, unmuted
\* and unlocked, with duration 0, no subtitle track and subtitles disabled.
C12_CreateTimelineFresh ==
    [][last'.op = "create_timeline" =>
        /\ last'.res = "Ok"
        /\ current_timeline' # None
        /\ FreshTimeline(Tl2)]_vars

\* create_timeline was called as the third call or later, after editor calls
\* or a loaded project, and the service holds the fresh timeline
C12_Witness ==
    /\ Present
    /\ last.op = "create_timeline" /\ last.res = "Ok"
    /\ ops >= 3
    /\ FreshTimeline(Tl)
    /\ NumClips(Tl.tracks) = 0

\* ================================================================== export
\* lines the external process writes to each of its pipes at most
MaxLines == 2
\* cancel_export commands waiting for the Mutex at most
MaxCancels == 1
\* export_timeline commands invoked at most
MaxExports == 1

\* Arguments of the export_timeline command: a timeline of two tracks and the
\* ids of the media map.  VA is a clip of m1, AB a clip of m2, AZ and AN clips
\* of m1 with duration 0 and -1.
ExportInputs ==
    LET p1 == CHOOSE p \in ClipPayloads : p.media_file_id = "m1"
        p2 == CHOOSE p \in ClipPayloads : p.media_file_id = "m2"
        VA == Clip(1, p1, 0, 0, 2)
        AB == Clip(2, p2, 0, 0, 4)
        AZ == Clip(3, p1, 0, 1, 1)
        AN == Clip(3, p1, 0, 2, 1)
        all == { [timeline |-> Timeline(<<Track(1, ty, vc, vm, FALSE),
                                         Track(2, "Audio", ac, am, FALSE)>>, 2),
                  media_files |-> mf] :
                    ty \in {"Video", "Overlay"}, vc \in {<<>>, <<VA>>}, vm \in BOOLEAN,
                    ac \in {<<>>, <<AB>>, <<AZ>>, <<AN>>}, am \in BOOLEAN,
                    mf \in {{"m1", "m2"}, {"m1"}} }
    IN  { i \in all : i.timeline.tracks[2].muted => i.timeline.tracks[2].clips # <<>> }

Ok(v) == [kind |-> "Ok", cause |-> v, status |-> 0, stderr |-> 0]
Err(kind, cause) == [kind |-> kind, cause |-> cause, status |-> 0, stderr |-> 0]

\* (mutant) only the clips of unmuted tracks are looked at
validate_unmuted_only(timeline, media_files) ==
    LET has_video == \E i \in 1..Len(timeline.tracks) :
                        /\ timeline.tracks[i].track_type = "Video"
                        /\ ~timeline.tracks[i].muted
                        /\ timeline.tracks[i].clips # <<>>
        bad == { s \in ClipSlots(timeline.tracks) :
                   /\ ~timeline.tracks[s[1]].muted
                   /\ \/ ClipAt(timeline.tracks, s).media_file_id \notin media_files
                      \/ ClipAt(timeline.tracks, s).duration <= 0 }
    IN  IF ~has_video THEN "ValidationError"
        ELSE IF bad # {} THEN "ValidationError"
        ELSE "Ok"

validate_timeline(timeline, media_files) ==
    LET has_video == \E i \in 1..Len(timeline.tracks) :
                        /\ timeline.tracks[i].track_type = "Video"
                        /\ ~timeline.tracks[i].muted
                        /\ timeline.tracks[i].clips # <<>>
        bad == { s \in ClipSlots(timeline.tracks) :
                   \/ ClipAt(timeline.tracks, s).media_file_id \notin media_files
                   \/ ClipAt(timeline.tracks, s).duration <= 0 }
    IN  IF ~has_video THEN "ValidationError"
        ELSE IF bad # {} THEN "ValidationError"
        ELSE "Ok"

\* (mutant) export_timeline leaves the flag as it finds it
reset_cancel_flag_kept(flag) == flag

\* self.cancel_flag.store(false, ..) at the start of export_timeline
reset_cancel_flag(flag) == FALSE

\* (mutant) the stderr reader is not awaited
stderr_joined_early(task) == TRUE

\* stderr_task.await completes when the reader task has returned
stderr_joined(task) == task.state = "done"

\* output_path.exists()
output_verified(output) == output # "missing"

\* the export_timeline command returns: its result is kept, the Mutex released
Return(res) ==
    /\ export_call' = [export_call EXCEPT !.pc = "idle", !.result = Some(res)]
    /\ service_lock' = "free"

\* export_timeline up to its first await: take the Mutex, reset the flag,
\* validate, build the command, spawn the process and the stderr reader.
\* (The timelines of ExportInputs carry no subtitles, so building cannot fail.)
ExportTimeline(input) ==
    /\ exports < MaxExports
    /\ export_call.pc = "idle"
    /\ service_lock = "free"
    /\ exports' = exports + 1
    /\ cancel_flag' = reset_cancel_flag(cancel_flag)
    /\ LET frame == [IdleCall EXCEPT !.input = Some(input),
                                     !.flag_at_start = cancel_flag]
       IN  IF validate_timeline(input.timeline, input.media_files) # "Ok"
           THEN /\ export_call' = [frame EXCEPT !.result = Some(Err("ValidationError", "validate"))]
                /\ service_lock' = "free"
                /\ UNCHANGED <<child, stderr_task>>
           ELSE \/ /\ export_call' = [frame EXCEPT !.result = Some(Err("FFmpegError", "spawn"))]
                   /\ service_lock' = "free"
                   /\ UNCHANGED <<child, stderr_task>>
                \/ /\ export_call' = [frame EXCEPT !.pc = "reading"]
                   /\ service_lock' = "export"
                   /\ child' = [NoChild EXCEPT !.state = "running"]
                   /\ stderr_task' = [state |-> "reading", error_output |-> 0]
    /\ UNCHANGED <<cancels, editorVars, compileVars, progressVars>>

\* (mutant) the stdout loop does not look at the flag
cancel_seen_never(flag) == FALSE

\* cancel_flag.load(Ordering::Relaxed) at the top of the stdout loop
cancel_seen(flag) == flag

\* one turn of the stdout loop of execute_ffmpeg: a line arrived; it is a
\* progress line (out_time_ms=<u64>), for which export-progress is emitted,
\* or some other line
ReadStdoutLine ==
    /\ export_call.pc = "reading"
    /\ child.stdout > 0
    /\ IF cancel_seen(cancel_flag)
       THEN /\ child' = [child EXCEPT !.state = "killed"]
            /\ Return(Err("Cancelled", "flag"))
       ELSE /\ child' = [child EXCEPT !.stdout = @ - 1]
            /\ \E out_time_ms \in BOOLEAN :
                  export_call' = [export_call EXCEPT
                                     !.lines_read = @ + 1,
                                     !.progress_emitted = IF out_time_ms THEN @ + 1 ELSE @]
            /\ UNCHANGED service_lock
    /\ UNCHANGED <<cancel_flag, stderr_task, cancels, exports,
                   editorVars, compileVars, progressVars>>

\* the stdout loop ends: the pipe is empty and closed
ReadStdoutEof ==
    /\ export_call.pc = "reading"
    /\ child.stdout = 0
    /\ child.state = "exited"
    /\ export_call' = [export_call EXCEPT !.pc = "waiting"]
    /\ UNCHANGED <<cancel_flag, service_lock, child, stderr_task, cancels, exports,
                   editorVars, compileVars, progressVars>>

\* child.wait().await
WaitChild ==
    /\ export_call.pc = "waiting"
    /\ child.state = "exited"
    /\ child' = [child EXCEPT !.state = "reaped"]
    /\ export_call' = [export_call EXCEPT !.pc = "joining", !.status = Some(child.status)]
    /\ UNCHANGED <<cancel_flag, service_lock, stderr_task, cancels, exports,
                   editorVars, compileVars, progressVars>>

\* stderr_task.await, the status test, the export-complete event, and step 4
\* of export_timeline
JoinStderr ==
    /\ export_call.pc = "joining"
    /\ stderr_joined(stderr_task)
    /\ LET status == Unwrap(export_call.status)
           res == IF status # 0
                  THEN [Err("FFmpegError", "exit") EXCEPT
                            !.status = status, !.stderr = stderr_task.error_output]
                  ELSE IF ~output_verified(child.output)
                       THEN Err("OutputError", "not created")
                       ELSE Ok("output_path")
       IN  /\ export_call' = [export_call EXCEPT !.pc = "idle", !.result = Some(res),
                                                 !.complete_emitted = (status = 0)]
           /\ service_lock' = "free"
    /\ UNCHANGED <<cancel_flag, child, stderr_task, cancels, exports,
                   editorVars, compileVars, progressVars>>

\* the reader task spawned by execute_ffmpeg takes one line of stderr
StderrTaskRead ==
    /\ stderr_task.state = "reading"
    /\ child.stderr > 0
    /\ child' = [child EXCEPT !.stderr = @ - 1]
    /\ stderr_task' = [stderr_task EXCEPT !.error_output = @ + 1]
    /\ UNCHANGED <<cancel_flag, service_lock, export_call, cancels, exports,
                   editorVars, compileVars, progressVars>>

\* the reader task sees the end of stderr and returns error_output
StderrTaskEof ==
    /\ stderr_task.state = "reading"
    /\ child.stderr = 0
    /\ child.state # "running"
    /\ stderr_task' = [stderr_task EXCEPT !.state = "done"]
    /\ UNCHANGED <<cancel_flag, service_lock, export_call, child, cancels, exports,
                   editorVars, compileVars, progressVars>>

\* the external process writes a progress line
ChildWriteStdout ==
    /\ child.state = "running"
    /\ child.stdout_written < MaxLines
    /\ child' = [child EXCEPT !.stdout = @ + 1, !.stdout_written = @ + 1]
    /\ UNCHANGED <<cancel_flag, service_lock, export_call, stderr_task, cancels, exports,
                   editorVars, compileVars, progressVars>>

\* the external process writes a diagnostic line
ChildWriteStderr ==
    /\ child.state = "running"
    /\ child.stderr_written < MaxLines
    /\ child' = [child EXCEPT !.stderr = @ + 1, !.stderr_written = @ + 1]
    /\ UNCHANGED <<cancel_flag, service_lock, export_call, stderr_task, cancels, exports,
                   editorVars, compileVars, progressVars>>

\* the external process creates the output file, then puts data in it
ChildWriteOutput ==
    /\ child.state = "running"
    /\ child.output # "written"
    /\ child' = [child EXCEPT !.output = IF @ = "missing" THEN "empty" ELSE "written"]
    /\ UNCHANGED <<cancel_flag, service_lock, export_call, stderr_task, cancels, exports,
                   editorVars, compileVars, progressVars>>

\* the external process exits, which closes its pipes
ChildExit(status) ==
    /\ child.state = "running"
    /\ child' = [child EXCEPT !.state = "exited", !.status = status]
    /\ UNCHANGED <<cancel_flag, service_lock, export_call, stderr_task, cancels, exports,
                   editorVars, compileVars, progressVars>>

\* an export is Running: its process was spawned and has not completed
Running == export_call.pc # "idle" /\ child.state = "running"

\* the cancel_export command is invoked; it starts by asking for the Mutex
CancelExport ==
    /\ cancels < MaxCancels
    /\ cancels' = cancels + 1
    /\ export_call' = [export_call EXCEPT !.cancel_requested = @ \/ Running]
    /\ UNCHANGED <<cancel_flag, service_lock, child, stderr_task, exports,
                   editorVars, compileVars, progressVars>>

\* the cancel_export command gets the Mutex, sets the flag and returns
CancelExportLocked ==
    /\ cancels > 0
    /\ service_lock = "free"
    /\ cancels' = cancels - 1
    /\ cancel_flag' = TRUE
    /\ export_call' = [export_call EXCEPT
                          !.cancelled_in_run = @ \/ export_call.pc # "idle"]
    /\ UNCHANGED <<service_lock, child, stderr_task, exports,
                   editorVars, compileVars, progressVars>>

\* ExportService::cancel_export called on the service itself, by a holder of
\* the service that does not go through the Mutex of the command; cancels
\* counts these calls
ServiceCancelExport ==
    /\ cancels < MaxCancels
    /\ cancels' = cancels + 1
    /\ cancel_flag' = TRUE
    /\ UNCHANGED <<service_lock, export_call, child, stderr_task, exports,
                   editorVars, compileVars, progressVars>>

NextExport ==
    \/ \E input \in ExportInputs : ExportTimeline(input)
    \/ ReadStdoutLine
    \/ ReadStdoutEof
    \/ WaitChild
    \/ JoinStderr
    \/ StderrTaskRead
    \/ StderrTaskEof
    \/ ChildWriteStdout
    \/ ChildWriteStderr
    \/ ChildWriteOutput
    \/ \E status \in {0, 1} : ChildExit(status)
    \/ CancelExport
    \/ CancelExportLocked

SpecExport == Init /\ [][NextExport]_vars

\* the ExportService alone: export_timeline and cancel_export are called on
\* it directly
NextService ==
    \/ \E input \in ExportInputs : ExportTimeline(input)
    \/ ReadStdoutLine
    \/ ReadStdoutEof
    \/ WaitChild
    \/ JoinStderr
    \/ StderrTaskRead
    \/ StderrTaskEof
    \/ ChildWriteStdout
    \/ ChildWriteStderr
    \/ ChildWriteOutput
    \/ \E status \in {0, 1} : ChildExit(status)
    \/ ServiceCancelExport

SpecService == Init /\ [][NextService]_vars

\* the result of the last export_timeline command that returned
Returned == export_call.pc = "idle" /\ export_call.result # None

Outcome == Unwrap(export_call.result)

NoVideo(timeline) ==
    ~\E i \in 1..Len(timeline.tracks) :
        /\ timeline.tracks[i].track_type = "Video"
        /\ ~timeline.tracks[i].muted
        /\ Len(timeline.tracks[i].clips) >= 1

MissingMedia(timeline, media_files) ==
    \E s \in ClipSlots(timeline.tracks) :
        ClipAt(timeline.tracks, s).media_file_id \notin media_files

BadDuration(timeline) ==
    \E s \in ClipSlots(timeline.tracks) : ClipAt(timeline.tracks, s).duration <= 0

InvalidInput(input) ==
    \/ NoVideo(input.timeline)
    \/ MissingMedia(input.timeline, input.media_files)
    \/ BadDuration(input.timeline)

\* C13: an export_timeline call whose timeline has no unmuted Video track with
\* a clip, or a clip whose media id is not in the media map, or a clip with
\* duration <= 0, returns ValidationError in the step it starts in, and no
\* external process and no reader task is spawned for it.
C13_InvalidTimelineNotSpawned ==
    [][(exports' = exports + 1 /\ InvalidInput(Unwrap(export_call'.input))) =>
        /\ export_call'.pc = "idle"
        /\ export_call'.result = Some(Err("ValidationError", "validate"))
        /\ service_lock' = "free"
        /\ child' = child
        /\ stderr_task' = stderr_task]_vars

\* an export was refused although its Video track is fine: a clip of the muted
\* Audio track names a media file the map does not hold; nothing was spawned
C13_Witness ==
    /\ Returned
    /\ Outcome.kind = "ValidationError"
    /\ ~NoVideo(Unwrap(export_call.input).timeline)
    /\ ~BadDuration(Unwrap(export_call.input).timeline)
    /\ Unwrap(export_call.input).timeline.tracks[2].muted
    /\ MissingMedia(Unwrap(export_call.input).timeline, Unwrap(export_call.input).media_files)
    /\ child.state = "none"
    /\ stderr_task.state = "none"

\* C16: when cancel_export is invoked while the export is Running (its process
\* has not completed), that export ends as Cancelled, the flag having been set
\* during its run.
C16_CancelWhileRunning ==
    (Returned /\ export_call.cancel_requested) =>
        (Outcome.kind = "Cancelled" /\ export_call.cancelled_in_run)

\* C17: export_timeline returns success only if the output file exists and is
\* not empty; with exit status zero and a missing or empty file the outcome is
\* the output-not-created error.
C17_OutputVerified ==
    (Returned /\ export_call.status = Some(0)) =>
        IF child.output = "written" THEN Outcome.kind = "Ok"
        ELSE Outcome.kind = "OutputError"

\* C18: an export ends as Cancelled only if the flag was set during its run;
\* cancel_export calls that set the flag while no export runs have no effect
\* on the next export.
C18_IdleCancelNoEffect ==
    (Returned /\ ~export_call.cancelled_in_run) => Outcome.kind # "Cancelled"

\* the flag was set when the export started (a cancel_export ran before it),
\* the export read progress lines, testing the flag each time, and succeeded
C18_Witness ==
    /\ Returned
    /\ export_call.flag_at_start
    /\ export_call.lines_read > 0
    /\ Outcome.kind = "Ok"

LineWithFlagSet ==
    /\ export_call.pc = "reading"
    /\ child.stdout > 0
    /\ cancel_flag
    /\ export_call' # export_call

\* C21: when the stdout loop receives a line while the cancellation flag is
\* set, that step kills the process and returns Cancelled, without waiting
\* for the process to exit or for the stderr reader; no export-progress is
\* emitted for the line, and once Cancelled has been returned no further line
\* is read, no progress and no export-complete is emitted.
C21_CancelOnStatusLine ==
    [][/\ LineWithFlagSet =>
            /\ child'.state = "killed"
            /\ export_call'.pc = "idle"
            /\ export_call'.result = Some(Err("Cancelled", "flag"))
            /\ export_call'.progress_emitted = export_call.progress_emitted
            /\ export_call'.lines_read = export_call.lines_read
            /\ ~export_call'.complete_emitted
            /\ export_call'.status = None
       /\ (Returned /\ Outcome.kind = "Cancelled" /\ exports' = exports) =>
            /\ export_call' = export_call
            /\ child'.state = "killed"]_vars

\* an export was cancelled after it had emitted progress for a line, while the
\* process was still running and had more lines and diagnostics pending
C21_Witness ==
    /\ Returned
    /\ Outcome.kind = "Cancelled"
    /\ export_call.progress_emitted = 1
    /\ export_call.lines_read = 1
    /\ child.state = "killed"
    /\ child.stdout > 0
    /\ stderr_task.state = "reading"
    /\ ~export_call.complete_emitted

\* C30: when export-complete has been emitted for an export, export_timeline
\* returns Ok for it.
C30_CompleteOnlyOnSuccess ==
    (Returned /\ export_call.complete_emitted) => Outcome.kind = "Ok"

\* ==================================================== build_ffmpeg_command
\* runs of build_ffmpeg_command on the same arguments at most
MaxRuns == 2

\* values of SystemTime::now() in seconds, as the name of the SRT file shows it
Clock == {1, 2}

\* a stream label of the filter graph: [0:v], [vsplit0_tmp1], [v0_1], [outv] ..
Label(name, stream, a, b) == [name |-> name, stream |-> stream, a |-> a, b |-> b]

\* one filter of the graph; the graph string joins the filters with ";"
Filter(kind, stream, from, to, params) ==
    [kind |-> kind, stream |-> stream, from |-> from, to |-> to, params |-> params]

\* the clips of the unmuted tracks among the first n, in the order the loops
\* visit them, with the indices enumerate() gives them
RECURSIVE track_uses(_, _)
track_uses(tracks, n) ==
    IF n = 0 THEN <<>>
    ELSE track_uses(tracks, n - 1) \o
         (IF tracks[n].muted THEN <<>>
          ELSE [c \in 1..Len(tracks[n].clips) |->
                  [track_idx |-> n - 1, clip_idx |-> c - 1,
                   stream |-> IF tracks[n].track_type = "Audio" THEN "a" ELSE "v",
                   clip |-> tracks[n].clips[c]]])

\* (mutant) every clip registers its media file again
RECURSIVE first_seen_again(_, _)
first_seen_again(uses, n) ==
    IF n = 0 THEN <<>> ELSE Append(first_seen_again(uses, n - 1), uses[n].clip.media_file_id)

\* input_map: media ids in first-seen order; the index is the position - 1
RECURSIVE first_seen(_, _)
first_seen(uses, n) ==
    IF n = 0 THEN <<>>
    ELSE LET before == first_seen(uses, n - 1)
             id == uses[n].clip.media_file_id
         IN  IF \E k \in 1..Len(before) : before[k] = id THEN before
             ELSE Append(before, id)

input_index(input_map, id) ==
    (CHOOSE k \in 1..Len(input_map) : input_map[k] = id) - 1

\* video_usage_count / audio_usage_count of one input
usage_count(uses, input_map, stream, input_idx) ==
    Cardinality({ i \in 1..Len(uses) :
                    /\ uses[i].stream = stream
                    /\ input_index(input_map, uses[i].clip.media_file_id) = input_idx })

\* the inputs that get a split filter
shared_inputs(uses, input_map, stream) ==
    { x \in 0..(Len(input_map) - 1) : usage_count(uses, input_map, stream, x) > 1 }

\* the orders in which iterating a HashMap can yield the keys S
Orders(S) ==
    { o \in [1..Cardinality(S) -> S] : \A i, j \in 1..Cardinality(S) : o[i] = o[j] => i = j }

split_filter(stream, input_idx, count) ==
    Filter("split", stream, <<Label("in", stream, input_idx, 0)>>,
           [i \in 1..count |-> Label("split", stream, input_idx, i - 1)], <<count>>)

\* (mutant) the counter of split outputs is never advanced
split_counter_stuck(uses, i) == 0

\* video_split_counters / audio_split_counters when clip i is reached
split_counter(uses, i) ==
    Cardinality({ j \in 1..(i - 1) :
                    /\ uses[j].stream = uses[i].stream
                    /\ uses[j].clip.media_file_id = uses[i].clip.media_file_id })

\* one stage of a chain: the text between two commas
Stage(name, value) == [name |-> name, value |-> value]

\* the stages that come of joining no text into the chain: one empty stage
EmptyStage == Stage("", 0)

\* build_effects_filter: one filter per enabled effect, in list order; the
\* result is the filters joined with ","
build_effects_filter(effects) ==
    LET enabled == SelectSeq(effects, LAMBDA e : e.enabled)
    IN  [k \in 1..Len(enabled) |-> Stage("effect", enabled[k].effect_type)]

\* clip_filter.push_str(",{effects_str}") when the clip has effects: pushing
\* the empty text of a list without enabled effects leaves an empty stage
push_effects(effects) ==
    IF effects = <<>> THEN <<>>
    ELSE IF build_effects_filter(effects) = <<>> THEN <<EmptyStage>>
    ELSE build_effects_filter(effects)

\* the per-clip chain: trim (start, duration), then the stages setpts,
\* effects, speed (video) or asetpts, volume (audio)
clip_filter(uses, input_map, i) ==
    LET u == uses[i]
        input_idx == input_index(input_map, u.clip.media_file_id)
        source_stream ==
            IF usage_count(uses, input_map, u.stream, input_idx) > 1
            THEN Label("split", u.stream, input_idx, split_counter(uses, i))
            ELSE Label("in", u.stream, input_idx, 0)
        stages == IF u.stream = "v"
                  THEN <<Stage("setpts", "PTS-STARTPTS")>>
                       \o push_effects(u.clip.effects)
                       \o (IF u.clip.speed # 1
                           THEN <<Stage("setpts", <<1, u.clip.speed>>)>> ELSE <<>>)
                  ELSE <<Stage("asetpts", "PTS-STARTPTS")>>
                       \o (IF u.clip.volume # 1
                           THEN <<Stage("volume", u.clip.volume)>> ELSE <<>>)
    IN  Filter("clip", u.stream, <<source_stream>>,
               <<Label("clip", u.stream, u.track_idx, u.clip_idx)>>,
               <<u.clip.trim_start, u.clip.duration, stages>>)

concat_filter(uses, stream, out) ==
    LET mine == SelectSeq(uses, LAMBDA u : u.stream = stream)
    IN  Filter("concat", stream,
               [i \in 1..Len(mine) |-> Label("clip", stream, mine[i].track_idx, mine[i].clip_idx)],
               <<Label(out, stream, 0, 0)>>, <<Len(mine)>>)

\* build_filter_complex; video_order and audio_order are the orders in which
\* the two usage-count HashMaps are iterated, now the clock when the SRT file
\* is named
build_filter_complex(timeline, input_map, video_order, audio_order, now) ==
    LET uses == track_uses(timeline.tracks, Len(timeline.tracks))
        burn == timeline.subtitle_enabled /\ IsSome(timeline.subtitle_track)
        has(stream) == \E i \in 1..Len(uses) : uses[i].stream = stream
    IN  [i \in 1..Len(video_order) |->
            split_filter("v", video_order[i], usage_count(uses, input_map, "v", video_order[i]))]
        \o [i \in 1..Len(audio_order) |->
            split_filter("a", audio_order[i], usage_count(uses, input_map, "a", audio_order[i]))]
        \o [i \in 1..Len(uses) |-> clip_filter(uses, input_map, i)]
        \o (IF has("v")
            THEN <<concat_filter(uses, "v", IF burn THEN "vconcat" ELSE "outv")>>
                 \o (IF burn
                     THEN <<Filter("subtitles", "v", <<Label("vconcat", "v", 0, 0)>>,
                                   <<Label("outv", "v", 0, 0)>>, <<now>>)>>
                     ELSE <<>>)
            ELSE <<>>)
        \o (IF has("a") THEN <<concat_filter(uses, "a", "outa")>> ELSE <<>>)

RECURSIVE input_args(_, _)
input_args(input_map, n) ==
    IF n = 0 THEN <<>> ELSE input_args(input_map, n - 1) \o <<"-i", input_map[n]>>

\* build_ffmpeg_command: the argument list, with the filter graph kept apart
build_ffmpeg_command(in, video_order, audio_order, now) ==
    LET uses == track_uses(in.timeline.tracks, Len(in.timeline.tracks))
        input_map == first_seen(uses, Len(uses))
        filter_complex == build_filter_complex(in.timeline, input_map,
                                               video_order, audio_order, now)
    IN  [args |-> <<"-y">> \o input_args(input_map, Len(input_map))
                  \o (IF filter_complex # <<>>
                      THEN <<"-filter_complex", "<filter_complex>",
                             "-map", "[outv]", "-map", "[outa]">>
                      ELSE <<>>)
                  \o <<"-threads", "0", "-max_muxing_queue_size", "1024",
                       "-max_interleave_delta", "500M">>
                  \o <<"-c:v", in.settings.video_codec, "-b:v", in.settings.video_bitrate,
                       "-c:a", in.settings.audio_codec, "-b:a", in.settings.audio_bitrate,
                       "-r", in.settings.framerate, "-s", in.settings.resolution>>
                  \o <<"-progress", "pipe:1", in.output_path>>,
         filter_complex |-> filter_complex]

\* Arguments of build_ffmpeg_command: a Video, an Audio and an Overlay track,
\* each muted or not and holding up to three clips of the media m1 and m2,
\* subtitles off, on with a track, or on without one; every media id is in
\* the media map (validate_timeline ran before).
CompileClipLists ==
    LET p1 == CHOOSE p \in ClipPayloads : p.media_file_id = "m1"
        p2 == CHOOSE p \in ClipPayloads : p.media_file_id = "m2"
        off == [p1 EXCEPT !.effects = <<[effect_type |-> "Blur", enabled |-> FALSE]>>]
        mix == [p1 EXCEPT !.effects = <<[effect_type |-> "Sharpen", enabled |-> TRUE],
                                        [effect_type |-> "Blur", enabled |-> FALSE],
                                        [effect_type |-> "Brightness", enabled |-> TRUE]>>]
        A(id, pos) == Clip(id, p1, pos, 0, 2)
        B(id, pos) == Clip(id, p2, pos, 0, 4)
    IN  { <<>>, <<A(1, 0)>>, <<A(1, 0), A(2, 2)>>, <<A(1, 0), B(2, 2)>>,
          <<B(1, 0), A(2, 2), B(3, 4)>>,
          \* the list after move_clip(1, .., 0): the moved clip is last
          <<A(2, 2), A(1, 0)>>,
          <<Clip(1, mix, 0, 0, 2), Clip(2, off, 2, 0, 2)>> }

CompileInputs ==
    { [timeline |-> [Timeline(<<Track(1, "Video", cv, mv, FALSE),
                                Track(2, "Audio", ca, ma, FALSE),
                                Track(3, "Overlay", co, mo, FALSE)>>, 6)
                        EXCEPT !.subtitle_enabled = sub[1], !.subtitle_track = sub[2]],
       settings |-> [video_codec |-> "libx264", video_bitrate |-> "8000k",
                     audio_codec |-> "aac", audio_bitrate |-> "192k",
                     framerate |-> "30", resolution |-> "1920x1080"],
       output_path |-> "out.mp4",
       media_files |-> {"m1", "m2"}] :
        cv \in CompileClipLists, ca \in CompileClipLists, co \in CompileClipLists,
        mv \in BOOLEAN, ma \in BOOLEAN, mo \in BOOLEAN,
        sub \in {<<FALSE, None>>, <<TRUE, None>>, <<TRUE, Some("srt")>>} }

InitCompile ==
    /\ current_timeline = None
    /\ last = Call("new", "Ok")
    /\ ops = 0
    /\ history = 0
    /\ ExportInit
    /\ compile_in \in { Some(in) : in \in CompileInputs }
    /\ compiled = <<>>
    /\ ProgressInit

\* one run of build_ffmpeg_command on the arguments
BuildFfmpegCommand ==
    /\ Len(compiled) < MaxRuns
    /\ LET in == Unwrap(compile_in)
           uses == track_uses(in.timeline.tracks, Len(in.timeline.tracks))
           input_map == first_seen(uses, Len(uses))
       IN  \E video_order \in Orders(shared_inputs(uses, input_map, "v")),
              audio_order \in Orders(shared_inputs(uses, input_map, "a")),
              now \in Clock :
                compiled' = Append(compiled,
                                   build_ffmpeg_command(in, video_order, audio_order, now))
    /\ UNCHANGED <<compile_in, editorVars, exportVars, progressVars>>

NextCompile == BuildFfmpegCommand

SpecCompile == InitCompile /\ [][NextCompile]_vars

\* the clips of unmuted Video/Overlay tracks ("v") or Audio tracks ("a") that
\* use a media file
ClipsUsing(timeline, stream, id) ==
    { sl \in ClipSlots(timeline.tracks) :
        /\ ~timeline.tracks[sl[1]].muted
        /\ (timeline.tracks[sl[1]].track_type = "Audio") = (stream = "a")
        /\ ClipAt(timeline.tracks, sl).media_file_id = id }

\* the filters of a graph of one kind and stream, as indices into the graph
FiltersOf(graph, kind, stream) ==
    { i \in 1..Len(graph) : graph[i].kind = kind /\ graph[i].stream = stream }

\* the per-clip chain of the clip in slot sl
ChainOf(graph, stream, sl) ==
    { i \in FiltersOf(graph, "clip", stream) :
        graph[i].to = <<Label("clip", stream, sl[1] - 1, sl[2] - 1)>> }

SplitWiring(in, plan, stream, id) ==
    LET graph == plan.filter_complex
        users == ClipsUsing(in.timeline, stream, id)
        N == Cardinality(users)
        \* the input index of the media file: its "-i" is the (x+1)-th
        x == CHOOSE k \in 0..(Cardinality(in.media_files) - 1) :
                /\ plan.args[2 * k + 2] = "-i"
                /\ plan.args[2 * k + 3] = id
        raw == Label("in", stream, x, 0)
        splits == { i \in FiltersOf(graph, "split", stream) : graph[i].from = <<raw>> }
        readers(l) == { i \in 1..Len(graph) : \E k \in 1..Len(graph[i].from) :
                                                 graph[i].from[k] = l }
    IN  /\ \A sl \in users : Cardinality(ChainOf(graph, stream, sl)) = 1
        /\ N > 1 =>
              /\ Cardinality(splits) = 1
              /\ \A i \in splits :
                    /\ Len(graph[i].to) = N
                    /\ graph[i].params = <<N>>
                    /\ \A k, m \in 1..N : graph[i].to[k] = graph[i].to[m] => k = m
                    /\ \A k \in 1..N :
                          /\ Cardinality(readers(graph[i].to[k])) = 1
                          /\ \E sl \in users : readers(graph[i].to[k]) = ChainOf(graph, stream, sl)
              /\ \A sl \in users : \A c \in ChainOf(graph, stream, sl) : graph[c].from # <<raw>>
              /\ readers(raw) = splits
        /\ N = 1 =>
              /\ splits = {}
              /\ \A sl \in users : \A c \in ChainOf(graph, stream, sl) : graph[c].from = <<raw>>

\* C14: in every compiled filter graph, an input used by N > 1 clips of unmuted
\* Video/Overlay tracks has exactly one video split filter, with N distinct
\* outputs, each read by exactly one per-clip chain of those clips, and none of
\* the N chains (nor anything but the split) reads the raw input stream; an
\* input used by one clip has no split filter and its chain reads the raw
\* stream; likewise, separately, for the clips of Audio tracks and asplit.
C14_SplitPerSharedInput ==
    \A r \in 1..Len(compiled) :
        \A stream \in {"v", "a"}, id \in Unwrap(compile_in).media_files :
            ClipsUsing(Unwrap(compile_in).timeline, stream, id) # {} =>
                SplitWiring(Unwrap(compile_in), compiled[r], stream, id)

\* a graph was compiled in which one media file feeds two video clips through
\* a split and an audio clip directly
C14_Witness ==
    /\ Len(compiled) > 0
    /\ \E id \in Unwrap(compile_in).media_files :
          /\ Cardinality(ClipsUsing(Unwrap(compile_in).timeline, "v", id)) = 2
          /\ Cardinality(ClipsUsing(Unwrap(compile_in).timeline, "a", id)) = 1
    /\ Cardinality(FiltersOf(compiled[1].filter_complex, "split", "v")) = 1
    /\ FiltersOf(compiled[1].filter_complex, "split", "a") = {}

\* C15: all runs of build_ffmpeg_command on the same arguments give the same
\* argument list and the same filter graph.
C15_CompileDeterministic ==
    \A i, j \in 1..Len(compiled) : compiled[i] = compiled[j]

\* ---------------------------------------------------------------------------
\* ffmpeg/progress.rs: ProgressParser
\* ---------------------------------------------------------------------------

\* A line is a sequence of characters.  Numbers are exact rationals
\* [num, den] with den > 0 (the rounding of f64 is not modelled).
Digits == {"0", "1", "2", "3", "4", "5", "6", "7", "8", "9"}

DigitVal(c) ==
    CASE c = "0" -> 0 [] c = "1" -> 1 [] c = "2" -> 2 [] c = "3" -> 3
      [] c = "4" -> 4 [] c = "5" -> 5 [] c = "6" -> 6 [] c = "7" -> 7
      [] c = "8" -> 8 [] c = "9" -> 9

Rat(n, d) == [num |-> n, den |-> d]

LessEq(p, q) == p.num * q.den <= q.num * p.den

RECURSIVE Pow10(_)
Pow10(k) == IF k = 0 THEN 1 ELSE 10 * Pow10(k - 1)

\* the value of the digits line[i..j] (0 for an empty range)
RECURSIVE digits_value(_, _, _)
digits_value(line, i, j) ==
    IF i > j THEN 0 ELSE digits_value(line, i, j - 1) * 10 + DigitVal(line[j])

\* str::parse::<f64> of the text "line[i..j].line[j+2..k]"
parse_f64(line, i, j, k) ==
    Rat(digits_value(line, i, j) * Pow10(k - j - 1) + digits_value(line, j + 2, k),
        Pow10(k - j - 1))

\* \d+ at position i: the position after the longest run of digits, or 0
RECURSIVE digits_end(_, _)
digits_end(line, i) ==
    IF i <= Len(line) /\ line[i] \in Digits
    THEN IF i + 1 <= Len(line) /\ line[i + 1] \in Digits
         THEN digits_end(line, i + 1)
         ELSE i + 1
    ELSE 0

\* a literal at position i: the position after it, or 0
literal_end(line, i, lit) ==
    IF /\ i > 0
       /\ i + Len(lit) - 1 <= Len(line)
       /\ \A k \in 1..Len(lit) : line[i + k - 1] = lit[k]
    THEN i + Len(lit)
    ELSE 0

TimeEq == <<"t", "i", "m", "e", "=">>

\* time=(\d+):(\d+):(\d+\.\d+) at position i: the ranges of the groups
full_at(line, i) ==
    LET h0 == literal_end(line, i, TimeEq)
        h1 == IF h0 = 0 THEN 0 ELSE digits_end(line, h0)
        m0 == literal_end(line, h1, <<":">>)
        m1 == IF m0 = 0 THEN 0 ELSE digits_end(line, m0)
        s0 == literal_end(line, m1, <<":">>)
        s1 == IF s0 = 0 THEN 0 ELSE digits_end(line, s0)
        f0 == literal_end(line, s1, <<".">>)
        f1 == IF f0 = 0 THEN 0 ELSE digits_end(line, f0)
    IN  IF f1 = 0 THEN None
        ELSE Some([g1 |-> <<h0, h1 - 1>>, g2 |-> <<m0, m1 - 1>>,
                   g3 |-> <<s0, s1 - 1, f1 - 1>>, g4 |-> None])

\* time=(\d+\.\d+) at position i
simple_at(line, i) ==
    LET s0 == literal_end(line, i, TimeEq)
        s1 == IF s0 = 0 THEN 0 ELSE digits_end(line, s0)
        f0 == literal_end(line, s1, <<".">>)
        f1 == IF f0 = 0 THEN 0 ELSE digits_end(line, f0)
    IN  IF f1 = 0 THEN None
        ELSE Some([g1 |-> None, g2 |-> None, g3 |-> None,
                   g4 |-> Some(<<s0, s1 - 1, f1 - 1>>)])

\* Regex::captures: the leftmost match, the first alternative before the second
RECURSIVE captures_from(_, _)
captures_from(line, i) ==
    IF i > Len(line) THEN None
    ELSE IF IsSome(full_at(line, i)) THEN full_at(line, i)
    ELSE IF IsSome(simple_at(line, i)) THEN simple_at(line, i)
    ELSE captures_from(line, i + 1)

captures(line) == captures_from(line, 1)

\* f64::min(q, 1.0) without the bound
min_unclamped(q) == q

\* f64::min(q, 1.0)
min_one(q) == IF LessEq(q, Rat(1, 1)) THEN q ELSE Rat(1, 1)

\* ProgressParser::new
new_parser(total_duration) == [total_duration |-> total_duration]

\* ProgressParser::parse_line
parse_line(self, line) ==
    LET caps == captures(line)
    IN  IF IsSome(caps)
        THEN LET c == Unwrap(caps)
                 seconds ==
                    IF IsSome(c.g4)
                    THEN LET g == Unwrap(c.g4) IN parse_f64(line, g[1], g[2], g[3])
                    ELSE LET hours   == digits_value(line, c.g1[1], c.g1[2])
                             minutes == digits_value(line, c.g2[1], c.g2[2])
                             secs    == parse_f64(line, c.g3[1], c.g3[2], c.g3[3])
                         IN  Rat((hours * 3600 + minutes * 60) * secs.den + secs.num,
                                 secs.den)
                 T == self.total_duration
             IN  IF T.num > 0
                 THEN Some(min_one(Rat(seconds.num * T.den, seconds.den * T.num)))
                 ELSE Some(Rat(0, 1))
        ELSE None

\* total durations a parser is built with: negative, zero, fractional, whole
Durations == {Rat(0 - 1, 1), Rat(0, 1), Rat(1, 2), Rat(1, 1), Rat(60, 1), Rat(3600, 1)}

\* the digit runs that lines are built from
Numerals == {<<"0">>, <<"3", "0">>, <<"0", "5">>}

Prefixes == {<<>>, <<"o", "u", "t", "_">>}

Suffixes == {<<>>, <<" ", "b", "=", "1", ".", "5">>}

TimeFields ==
    {TimeEq \o s \o <<".">> \o f : s \in Numerals, f \in {<<"0">>, <<"0", "5">>}}
    \cup {TimeEq \o h \o <<":">> \o m \o <<":">> \o s \o <<".">> \o f :
            h \in {<<"0">>, <<"0", "1">>}, m \in {<<"0">>, <<"3", "0">>},
            s \in Numerals, f \in {<<"0">>, <<"0", "5">>}}
    \cup {TimeEq \o <<"N", "/", "A">>}
    \cup {TimeEq \o s : s \in Numerals}
    \cup {TimeEq \o <<"0", ":">> \o m \o <<":">> \o <<"3", "0">> : m \in Numerals}
    \cup {TimeEq \o <<"1", ":">> \o s \o <<".", "5">> : s \in Numerals}
    \cup {TimeEq, <<>>, <<"t", "i", "m", "e", ":", "1", ".", "5">>,
          <<"b", "i", "t", "r", "a", "t", "e", "=", "1", ".", "5">>}

Lines == {p \o t \o s : p \in Prefixes, t \in TimeFields, s \in Suffixes}

\* ProgressParser::new(total_duration)
NewParser(total_duration) ==
    /\ parser' = Some(new_parser(total_duration))
    /\ parsed' = None
    /\ UNCHANGED <<editorVars, exportVars, compileVars>>

\* parser.parse_line(line)
ParseLine(line) ==
    /\ IsSome(parser)
    /\ parsed' = Some([line |-> line, result |-> parse_line(Unwrap(parser), line)])
    /\ UNCHANGED <<parser, editorVars, exportVars, compileVars>>

NextProgress ==
    \/ \E total_duration \in Durations : NewParser(total_duration)
    \/ \E line \in Lines : ParseLine(line)

SpecProgress == Init /\ [][NextProgress]_vars

\* --- the time field of a line, stated without the matcher -------------------

AllDigits(line, i, j) == i <= j /\ j <= Len(line) /\ \A k \in i..j : line[k] \in Digits

EndsRun(line, j) == j = Len(line) \/ line[j + 1] \notin Digits

HasTimeEq(line, i) ==
    i + 4 <= Len(line) /\ \A k \in 1..5 : line[i + k - 1] = TimeEq[k]

\* the characters "time=" occur in the line
ContainsTimeEq(line) == \E i \in 1..Len(line) : HasTimeEq(line, i)

\* the last position of the longest run of digits that starts at position i
\* (i - 1 when there is no digit at i)
RunEnd(line, i) ==
    IF i > Len(line) \/ line[i] \notin Digits THEN i - 1
    ELSE CHOOSE j \in i..Len(line) : AllDigits(line, i, j) /\ EndsRun(line, j)

CharAt(line, i, c) == i <= Len(line) /\ line[i] = c

\* the elapsed times of the fields of the form time=S.f or time=H:M:S.f that
\* start at position i (none or one)
FieldsAt(line, i) ==
    IF ~HasTimeEq(line, i) THEN {}
    ELSE LET a == RunEnd(line, i + 5)
             b == RunEnd(line, a + 2)
             c == RunEnd(line, b + 2)
             d == RunEnd(line, c + 2)
         IN  IF a >= i + 5 /\ CharAt(line, a + 1, ".") /\ b >= a + 2
             THEN {parse_f64(line, i + 5, a, b)}
             ELSE IF /\ a >= i + 5 /\ CharAt(line, a + 1, ":") /\ b >= a + 2
                     /\ CharAt(line, b + 1, ":") /\ c >= b + 2
                     /\ CharAt(line, c + 1, ".") /\ d >= c + 2
             THEN LET s == parse_f64(line, b + 2, c, d)
                  IN  {Rat((digits_value(line, i + 5, a) * 3600
                              + digits_value(line, a + 2, b) * 60) * s.den + s.num, s.den)}
             ELSE {}

\* the elapsed time of the first time field of the line, if it has one
Elapsed(line) ==
    LET at == {i \in 1..Len(line) : FieldsAt(line, i) # {}}
    IN  IF at = {} THEN None
        ELSE LET first == CHOOSE i \in at : \A k \in at : i <= k
             IN  Some(CHOOSE e \in FieldsAt(line, first) : TRUE)

RECURSIVE Gcd(_, _)
Gcd(a, b) == IF b = 0 THEN a ELSE Gcd(b, a % b)

\* a non-negative rational in lowest terms
Lowest(p) ==
    LET g == Gcd(p.num, p.den) IN Rat(p.num \div g, p.den \div g)

\* two non-negative rationals are the same number
SameRat(p, q) == Lowest(p) = Lowest(q)

\* the fraction elapsed / T, bounded by 1
Fraction(e, T) ==
    IF e.num * T.den >= T.num * e.den THEN Rat(1, 1)
    ELSE Rat(e.num * T.den, e.den * T.num)

\* what parse_line returns when the line carries the elapsed time e
Expected(e, T) == IF T.num <= 0 THEN Rat(0, 1) ELSE Fraction(e, T)

\* C19 as stated: parse_line returns None when the characters time= do not
\* occur in the line and otherwise a fraction, min(elapsed/T, 1), or 0 when
\* T <= 0.
C19_Original ==
    IsSome(parsed) =>
        LET p == Unwrap(parsed)
        IN  IF ContainsTimeEq(p.line)
            THEN /\ IsSome(p.result)
                 /\ IsSome(Elapsed(p.line))
                 /\ SameRat(Unwrap(p.result),
                            Expected(Unwrap(Elapsed(p.line)), Unwrap(parser).total_duration))
            ELSE p.result = None

\* C19: parse_line returns None when the line has no time field of the form
\* time=S.f or time=H:M:S.f (digits only), and otherwise min(elapsed/T, 1),
\* where elapsed is the value of the first such field (H*3600 + M*60 + S.f for
\* the long form): exactly 1 when elapsed exceeds T, never more than 1, never
\* negative, and 0 when T <= 0; the parser itself is not changed by a call.
C19_ParseLine ==
    IsSome(parsed) =>
        LET p == Unwrap(parsed)
            T == Unwrap(parser).total_duration
            e == Elapsed(p.line)
        IN  IF IsSome(e)
            THEN /\ IsSome(p.result)
                 /\ SameRat(Unwrap(p.result), Expected(Unwrap(e), T))
                 /\ LessEq(Unwrap(p.result), Rat(1, 1))
                 /\ LessEq(Rat(0, 1), Unwrap(p.result))
                 /\ (T.num > 0 /\ ~LessEq(Unwrap(e), T)) => Unwrap(p.result) = Rat(1, 1)
                 /\ T.num <= 0 => Unwrap(p.result) = Rat(0, 1)
            ELSE p.result = None

\* a line in the long form whose elapsed time (3630.05 s) exceeds the total
\* duration of 3600 s was parsed to exactly 1
C19_Witness ==
    /\ IsSome(parsed)
    /\ Unwrap(parser).total_duration = Rat(3600, 1)
    /\ IsSome(Elapsed(Unwrap(parsed).line))
    /\ Unwrap(Elapsed(Unwrap(parsed).line)) = Rat(363005, 100)
    /\ Unwrap(parsed).result = Some(Rat(1, 1))

\* the media ids of the "-i" arguments of a plan, in the order of the list
InputsOf(plan) ==
    LET at == { k \in 1..Len(plan.args) : plan.args[k] = "-i" }
    IN  [n \in 1..Cardinality(at) |-> plan.args[2 * n + 1]]

\* the slots of the clips of unmuted tracks that use a media file
UnmutedSlotsOf(timeline, id) ==
    { sl \in ClipSlots(timeline.tracks) :
        /\ ~timeline.tracks[sl[1]].muted
        /\ ClipAt(timeline.tracks, sl).media_file_id = id }

\* slot a comes before slot b in track order, then clip order
SlotBefore(a, b) == a[1] < b[1] \/ (a[1] = b[1] /\ a[2] < b[2])

FirstSlotOf(timeline, id) ==
    CHOOSE a \in UnmutedSlotsOf(timeline, id) :
        \A b \in UnmutedSlotsOf(timeline, id) : a = b \/ SlotBefore(a, b)

\* C23: the "-i" arguments of a plan follow "-y" in pairs, name each media id
\* used by a clip of an unmuted track exactly once and no other id, in the
\* order in which the ids are first met walking the tracks in order and each
\* track's clips in order; the k-th of them has index k - 1, which is the
\* index the chain of each clip names as its input.
C23_InputsFirstSeen ==
    \A r \in 1..Len(compiled) :
        LET in == Unwrap(compile_in)
            plan == compiled[r]
            inputs == InputsOf(plan)
            graph == plan.filter_complex
        IN  /\ \A n \in 1..Len(inputs) : plan.args[2 * n] = "-i"
            /\ \A n, m \in 1..Len(inputs) : inputs[n] = inputs[m] => n = m
            /\ { inputs[n] : n \in 1..Len(inputs) }
                  = { id \in in.media_files : UnmutedSlotsOf(in.timeline, id) # {} }
            /\ \A n, m \in 1..Len(inputs) :
                  n < m => SlotBefore(FirstSlotOf(in.timeline, inputs[n]),
                                      FirstSlotOf(in.timeline, inputs[m]))
            /\ \A n \in 1..Len(inputs) : \A sl \in UnmutedSlotsOf(in.timeline, inputs[n]) :
                  \A stream \in {"v", "a"} : \A c \in ChainOf(graph, stream, sl) :
                      graph[c].from[1].a = n - 1

\* a plan whose inputs are m2 then m1: the first clip met uses m2, which two
\* clips of that track use, and m1 is met in between; a muted track is skipped
C23_Witness ==
    /\ Len(compiled) > 0
    /\ InputsOf(compiled[1]) = <<"m2", "m1">>
    /\ Len(Unwrap(compile_in).timeline.tracks[1].clips) = 3
    /\ ~Unwrap(compile_in).timeline.tracks[1].muted
    /\ Unwrap(compile_in).timeline.tracks[2].muted
    /\ Unwrap(compile_in).timeline.tracks[2].clips # <<>>

\* the chains of a plan with the clips they were built for
ChainsOf(in, plan) ==
    { <<c, sl>> \in (1..Len(plan.filter_complex)) \X ClipSlots(in.timeline.tracks) :
        \E stream \in {"v", "a"} : c \in ChainOf(plan.filter_complex, stream, sl) }

\* C24: every per-clip chain trims its source from trim_start for the length
\* duration * speed, which is trim_end - trim_start.
C24_TrimWindow ==
    \A r \in 1..Len(compiled) :
        \A cs \in ChainsOf(Unwrap(compile_in), compiled[r]) :
            LET clip == ClipAt(Unwrap(compile_in).timeline.tracks, cs[2])
                f == compiled[r].filter_complex[cs[1]]
            IN  /\ f.params[1] = clip.trim_start
                /\ f.params[2] = clip.duration * clip.speed
                /\ f.params[2] = clip.trim_end - clip.trim_start

\* the effect stages of a chain: what stands between the timestamp reset and
\* the speed or volume stage
EffectStages(f, clip) ==
    LET stages == f.params[3]
        last_fixed == IF f.stream = "v" THEN clip.speed # 1 ELSE clip.volume # 1
    IN  SubSeq(stages, 2, Len(stages) - (IF last_fixed THEN 1 ELSE 0))

\* C25: in every per-clip chain the stages after the timestamp reset and
\* before the speed stage are the enabled effects of the clip, one stage each,
\* in list order; a clip without enabled effects has no stage there.
C25_EnabledEffectsInOrder ==
    \A r \in 1..Len(compiled) :
        \A cs \in ChainsOf(Unwrap(compile_in), compiled[r]) :
            LET clip == ClipAt(Unwrap(compile_in).timeline.tracks, cs[2])
                f == compiled[r].filter_complex[cs[1]]
                enabled == SelectSeq(clip.effects, LAMBDA e : e.enabled)
            IN  /\ f.params[3][1].value = "PTS-STARTPTS"
                /\ EffectStages(f, clip)
                      = [k \in 1..Len(enabled) |-> Stage("effect", enabled[k].effect_type)]

\* the filters of a graph that produce a label
ProducersOf(graph, l) ==
    { i \in 1..Len(graph) : \E k \in 1..Len(graph[i].to) : graph[i].to[k] = l }

\* the labels the filters of a graph read, the streams of the inputs excepted
ConsumedLabels(graph) ==
    { l \in UNION { { graph[i].from[k] : k \in 1..Len(graph[i].from) } : i \in 1..Len(graph) } :
        l.name # "in" }

\* the labels the "-map" arguments of a plan name
MappedLabels(plan) ==
    { Label(IF plan.args[k + 1] = "[outv]" THEN "outv" ELSE "outa",
            IF plan.args[k + 1] = "[outv]" THEN "v" ELSE "a", 0, 0) :
        k \in { j \in 1..(Len(plan.args) - 1) : plan.args[j] = "-map" } }

\* C26: the plan of a timeline that passes validation maps outv and outa, each
\* is produced by exactly one filter, and so is every label a filter reads.
C26_GraphWellFormed ==
    \A r \in 1..Len(compiled) :
        LET in == Unwrap(compile_in)
            graph == compiled[r].filter_complex
        IN  validate_timeline(in.timeline, in.media_files) = "Ok" =>
              /\ MappedLabels(compiled[r]) = {Label("outv", "v", 0, 0), Label("outa", "a", 0, 0)}
              /\ \A l \in MappedLabels(compiled[r]) \cup ConsumedLabels(graph) :
                    Cardinality(ProducersOf(graph, l)) = 1

\* C27: in every plan the concat filters read the chains of the clips of a
\* track in the order of their track_position, whatever the order of the
\* track's list.
C27_ConcatByPosition ==
    \A r \in 1..Len(compiled) :
        LET tracks == Unwrap(compile_in).timeline.tracks
            graph == compiled[r].filter_complex
        IN  \A i \in 1..Len(graph) :
              graph[i].kind = "concat" =>
                \A k, m \in 1..Len(graph[i].from) :
                    (k < m /\ graph[i].from[k].a = graph[i].from[m].a) =>
                        tracks[graph[i].from[k].a + 1].clips[graph[i].from[k].b + 1].track_position
                          <= tracks[graph[i].from[m].a + 1].clips[graph[i].from[m].b + 1].track_position

====
